---- MODULE Spec2Model ----
(***************************************************************************)
(* A model of olive's ClipBlock (app/node/block/clip/clip.cpp): the time   *)
(* mapping between sequence time and media time, and the propagation of    *)
(* cache invalidation and recompute requests to the four playback caches   *)
(* of the node connected to the clip's buffer input.                       *)
(***************************************************************************)
EXTENDS Integers, Sequences, FiniteSets, TLC

(***************************************************************************)
(* Bounds of the model.                                                    *)
(***************************************************************************)
MaxLen == 2
MaxMediaIn == 1
MaxT == 2

(***************************************************************************)
(* rational: an exact fraction n/d, d > 0, in lowest terms.  The three     *)
(* reserved values have d = 0.                                             *)
(***************************************************************************)
RECURSIVE GCD(_, _)
GCD(a, b) == IF b = 0 THEN a ELSE GCD(b, a % b)

Abs(x) == IF x < 0 THEN -x ELSE x

Rat(n, d) ==
  LET s == IF d < 0 THEN -1 ELSE 1
      g == GCD(Abs(n), Abs(d))
  IN  [n |-> (s * n) \div g, d |-> (s * d) \div g]

R(i) == [n |-> i, d |-> 1]

RATIONAL_MIN == [n |-> -1, d |-> 0]
RATIONAL_MAX == [n |-> 1, d |-> 0]
NaN == [n |-> 0, d |-> 0]

IsSentinel(t) == t = RATIONAL_MIN \/ t = RATIONAL_MAX
IsNaN(t) == t = NaN
IsFinite(t) == t.d > 0

RAdd(a, b) ==
  IF IsNaN(a) \/ IsNaN(b) THEN NaN
  ELSE IF ~IsFinite(a) THEN a
  ELSE IF ~IsFinite(b) THEN b
  ELSE Rat(a.n * b.d + b.n * a.d, a.d * b.d)

RNeg(a) == [n |-> -a.n, d |-> a.d]

RSub(a, b) == RAdd(a, RNeg(b))

RMul(a, b) ==
  IF IsNaN(a) \/ IsNaN(b) THEN NaN
  ELSE IF ~IsFinite(a) \/ ~IsFinite(b) THEN NaN
  ELSE Rat(a.n * b.n, a.d * b.d)

RDiv(a, b) ==
  IF IsNaN(a) \/ IsNaN(b) \/ ~IsFinite(a) \/ ~IsFinite(b) \/ b.n = 0 THEN NaN
  ELSE Rat(a.n * b.d, a.d * b.n)

RLess(a, b) ==
  IF IsNaN(a) \/ IsNaN(b) THEN FALSE
  ELSE IF a = b THEN FALSE
  ELSE IF a = RATIONAL_MIN \/ b = RATIONAL_MAX THEN TRUE
  ELSE IF a = RATIONAL_MAX \/ b = RATIONAL_MIN THEN FALSE
  ELSE a.n * b.d < b.n * a.d

RLeq(a, b) == a = b \/ RLess(a, b)

qMax(a, b) == IF RLess(a, b) THEN b ELSE a
qMin(a, b) == IF RLess(b, a) THEN b ELSE a

(***************************************************************************)
(* double: the values the model uses (dyadic fractions of small magnitude) *)
(* are represented exactly by an IEEE double, so the conversions keep the  *)
(* value and the floating multiply and divide are exact on them.           *)
(***************************************************************************)
toDouble(t) == [n |-> t.n, d |-> t.d]
fromDouble(x) == IF x.d = 0 THEN NaN ELSE Rat(x.n, x.d)
qIsNull(x) == x.n = 0 /\ x.d # 0
qFuzzyCompare(x, y) == x = y

(***************************************************************************)
(* TimeRange: [in, out) with in <= out; the constructor orders its two     *)
(* arguments.                                                              *)
(***************************************************************************)
TimeRange(a, b) == IF RLess(b, a) THEN [in |-> b, out |-> a] ELSE [in |-> a, out |-> b]

IsEmptyRange(r) == ~RLess(r.in, r.out)

Intersected(r, a) ==
  LET i == qMax(a.in, r.in)
      o == qMin(a.out, r.out)
  IN  IF RLess(i, o) THEN [in |-> i, out |-> o] ELSE [in |-> i, out |-> i]

(***************************************************************************)
(* The program's state.                                                    *)
(***************************************************************************)
NoNode == "none"
Sources == {"S1", "S2"}
Viewers == {"V1", "V2"}
Kinds == {"thumbnail", "waveform", "video_frame", "audio"}
TrackTypes == {"video", "audio", "none"}
MarkerSignals == {"MarkerAdded", "MarkerRemoved", "MarkerModified"}

kBufferIn == "buffer_in"
kMediaInInput == "media_in_in"
kSpeedInput == "speed_in"
kReverseInput == "reverse_in"
kMaintainAudioPitchInput == "maintain_audio_pitch_in"
kAutoCacheInput == "autocache_in"

VARIABLES
  length,            \* clip -> length()
  media_in,          \* clip -> media_in()
  speed,             \* clip -> speed()
  reverse,           \* clip -> reverse()
  autocache,         \* clip -> IsAutocaching()
  track,             \* clip -> GetTrackType()
  caches_enabled,    \* clip -> AreCachesEnabled()
  connected,         \* clip -> GetConnectedOutput(kBufferIn)
  found_viewer,      \* clip -> first ViewerOutput found upstream of kBufferIn
  connected_viewer_, \* clip -> connected_viewer_
  marker_conns,      \* clip -> viewer -> signal -> number of connections
  validated_conns,   \* clip -> source -> kind -> number of connections
  invalidated,       \* source -> kind -> invalidated cells of the cache
  pending,           \* source -> kind -> cells with a queued recompute
  passthroughs,      \* source -> kind -> sequence of passthrough ranges
  calls,             \* calls and emissions of the last handler, in order
  downstream,        \* what the last handler passed to super::InvalidateCache
  last,              \* the last handler and its arguments
  probe              \* argument and result of the last direct function call

clipvars == <<length, media_in, speed, reverse, autocache, track, caches_enabled>>
graphvars == <<connected, found_viewer>>
connvars == <<connected_viewer_, marker_conns, validated_conns>>
cachevars == <<invalidated, pending, passthroughs>>
vars == <<clipvars, graphvars, connvars, cachevars, calls, downstream, last, probe>>

Clips == DOMAIN length

(***************************************************************************)
(* The caches keep their ranges on a grid of half time units: cell k is    *)
(* the range [k/2, (k+1)/2).                                               *)
(***************************************************************************)
Half(k) == Rat(k, 2)
CellLo == 0 - 4 * (MaxLen + MaxT)
CellHi == 2 * (MaxT + MaxMediaIn) + 4 * (MaxLen + 10)
Cells == CellLo .. CellHi

\* The first grid point at or after t and the last one at or before t, for a
\* finite t.
Ceil2(t) == 0 - ((0 - 2 * t.n) \div t.d)
Floor2(t) == (2 * t.n) \div t.d

\* The cells a range covers whole.
CellsOf(r) ==
  LET lo == IF r.in = RATIONAL_MIN THEN CellLo
            ELSE IF ~IsFinite(r.in) THEN CellHi + 1
            ELSE IF Ceil2(r.in) < CellLo THEN CellLo ELSE Ceil2(r.in)
      hi == IF r.out = RATIONAL_MAX THEN CellHi
            ELSE IF ~IsFinite(r.out) THEN CellLo - 1
            ELSE IF Floor2(r.out) - 1 > CellHi THEN CellHi ELSE Floor2(r.out) - 1
  IN  lo .. hi

\* The maximal runs of a set of cells, as a list of ranges in time order.
RECURSIVE RangesFrom(_, _)
RangesFrom(S, k) ==
  IF S = {} THEN <<>>
  ELSE IF k \notin S THEN RangesFrom(S, k + 1)
  ELSE LET e == CHOOSE j \in S : /\ j >= k
                                  /\ \A i \in k .. j : i \in S
                                  /\ (j + 1) \notin S
       IN  <<[in |-> Half(k), out |-> Half(e + 1)]>>
             \o RangesFrom({i \in S : i > e}, e + 1)

TimeRangeList(S) == IF S = {} THEN <<>> ELSE RangesFrom(S, CHOOSE k \in S : \A j \in S : k <= j)

RECURSIVE ListCells(_)
ListCells(l) == IF l = <<>> THEN {} ELSE CellsOf(Head(l)) \cup ListCells(Tail(l))

\* TimeRangeList::remove
ListRemove(l, r) == TimeRangeList(ListCells(l) \ CellsOf(r))

(***************************************************************************)
(* ClipBlock::SequenceToMediaTime and ClipBlock::MediaToSequenceTime.      *)
(***************************************************************************)
\* Faulty variant: the sentinels are mapped like any other time.
SequenceToMediaTime_MapsSentinels(c, sequence_time, ignore_reverse, ignore_speed) ==
  LET t1 == IF reverse[c] /\ ~ignore_reverse
            THEN RSub(length[c], sequence_time) ELSE sequence_time
      t2 == IF ignore_speed THEN t1
            ELSE IF qIsNull(speed[c]) THEN R(0)
            ELSE IF ~qFuzzyCompare(speed[c], R(1))
                 THEN fromDouble(RMul(toDouble(t1), speed[c]))
            ELSE t1
  IN  RAdd(t2, media_in[c])

\* Faulty variant: speed 0 does not hold the time at the in point.
SequenceToMediaTime_NoFreeze(c, sequence_time, ignore_reverse, ignore_speed) ==
  IF sequence_time = RATIONAL_MIN \/ sequence_time = RATIONAL_MAX THEN sequence_time
  ELSE
    LET t1 == IF reverse[c] /\ ~ignore_reverse
              THEN RSub(length[c], sequence_time) ELSE sequence_time
        t2 == IF ignore_speed \/ qIsNull(speed[c]) THEN t1
              ELSE IF ~qFuzzyCompare(speed[c], R(1))
                   THEN fromDouble(RMul(toDouble(t1), speed[c]))
              ELSE t1
    IN  RAdd(t2, media_in[c])

\* Faulty variant: the reverse step is left out of the forward mapping.
SequenceToMediaTime_NoReverse(c, sequence_time, ignore_reverse, ignore_speed) ==
  IF sequence_time = RATIONAL_MIN \/ sequence_time = RATIONAL_MAX THEN sequence_time
  ELSE
    LET t2 == IF ignore_speed THEN sequence_time
              ELSE IF qIsNull(speed[c]) THEN R(0)
              ELSE IF ~qFuzzyCompare(speed[c], R(1))
                   THEN fromDouble(RMul(toDouble(sequence_time), speed[c]))
              ELSE sequence_time
    IN  RAdd(t2, media_in[c])

SequenceToMediaTime(c, sequence_time, ignore_reverse, ignore_speed) ==
  IF sequence_time = RATIONAL_MIN \/ sequence_time = RATIONAL_MAX THEN sequence_time
  ELSE
    LET t1 == IF reverse[c] /\ ~ignore_reverse
              THEN RSub(length[c], sequence_time) ELSE sequence_time
        t2 == IF ignore_speed THEN t1
              ELSE IF qIsNull(speed[c]) THEN R(0)
              ELSE IF ~qFuzzyCompare(speed[c], R(1))
                   THEN fromDouble(RMul(toDouble(t1), speed[c]))
              ELSE t1
    IN  RAdd(t2, media_in[c])

\* Faulty variant: the reverse step is left out of the inverse mapping.
MediaToSequenceTime_NoReverse(c, media_time) ==
  IF media_time = RATIONAL_MIN \/ media_time = RATIONAL_MAX THEN media_time
  ELSE
    LET t1 == RSub(media_time, media_in[c])
    IN  IF qIsNull(speed[c]) THEN NaN
        ELSE IF ~qFuzzyCompare(speed[c], R(1))
             THEN fromDouble(RDiv(toDouble(t1), speed[c]))
        ELSE t1

MediaToSequenceTime(c, media_time) ==
  IF media_time = RATIONAL_MIN \/ media_time = RATIONAL_MAX THEN media_time
  ELSE
    LET t1 == RSub(media_time, media_in[c])
        t2 == IF qIsNull(speed[c]) THEN NaN
              ELSE IF ~qFuzzyCompare(speed[c], R(1))
                   THEN fromDouble(RDiv(toDouble(t1), speed[c]))
              ELSE t1
    IN  IF reverse[c] THEN RSub(length[c], t2) ELSE t2

\* ClipBlock::InputTimeAdjustment and ClipBlock::OutputTimeAdjustment; the
\* base class returns the range unchanged for the other inputs.
InputTimeAdjustment(c, input, input_time) ==
  IF input = kBufferIn
  THEN TimeRange(SequenceToMediaTime(c, input_time.in, FALSE, FALSE),
                 SequenceToMediaTime(c, input_time.out, FALSE, FALSE))
  ELSE input_time

OutputTimeAdjustment(c, input, input_time) ==
  IF input = kBufferIn
  THEN TimeRange(MediaToSequenceTime(c, input_time.in),
                 MediaToSequenceTime(c, input_time.out))
  ELSE input_time

(***************************************************************************)
(* The caches of the connected node.  A handler threads a record w of the  *)
(* cache contents and of the calls made so far through its calls.          *)
(***************************************************************************)
World == [inv |-> invalidated, pend |-> pending, calls |-> <<>>]

Call(op, s, k, r) == [op |-> op, src |-> s, kind |-> k, range |-> r]

\* PlaybackCache::Invalidate: marks the range invalid; queued work stays.
Invalidate(w, s, k, r) ==
  [w EXCEPT !.inv[s][k] = @ \cup CellsOf(r),
            !.calls = Append(@, Call("Invalidate", s, k, r))]

\* emit PlaybackCache::Request: the renderer queues the range.
Request(w, s, k, r) ==
  [w EXCEPT !.pend[s][k] = @ \cup CellsOf(r),
            !.calls = Append(@, Call("Request", s, k, r))]

\* emit PlaybackCache::CancelAll: the renderer drops the cache's whole queue.
CancelAll(w, s, k) ==
  [w EXCEPT !.pend[s][k] = {},
            !.calls = Append(@, Call("CancelAll", s, k, TimeRange(RATIONAL_MIN, RATIONAL_MAX)))]

\* PlaybackCache::GetInvalidatedRanges
GetInvalidatedRanges(w, s, k, max_range) == TimeRangeList(w.inv[s][k] \cap CellsOf(max_range))

\* PlaybackCache::GetPassthroughs
GetPassthroughs(s, k) == passthroughs[s][k]

(***************************************************************************)
(* ClipBlock's cache requests.                                             *)
(***************************************************************************)
\* Faulty variant: the range is used as reported, not cut to max_range.
RequestRangeForCache_Unclipped(w, s, k, max_range, range, invalidate, request) ==
  LET w1 == IF invalidate THEN Invalidate(w, s, k, range) ELSE w
  IN  IF request THEN Request(w1, s, k, range) ELSE w1

RequestRangeForCache(w, s, k, max_range, range, invalidate, request) ==
  LET r == Intersected(range, max_range)
      w1 == IF invalidate THEN Invalidate(w, s, k, r) ELSE w
  IN  IF request THEN Request(w1, s, k, r) ELSE w1

RECURSIVE RemoveAll(_, _)
RemoveAll(invalid, ps) ==
  IF ps = <<>> THEN invalid ELSE RemoveAll(ListRemove(invalid, Head(ps)), Tail(ps))

RECURSIVE RequestEach(_, _, _, _, _)
RequestEach(w, s, k, max_range, invalid) ==
  IF invalid = <<>> THEN w
  ELSE RequestEach(RequestRangeForCache(w, s, k, max_range, Head(invalid), FALSE, TRUE),
                   s, k, max_range, Tail(invalid))

\* Faulty variant: the sweep invalidates the whole window before requesting.
RequestInvalidatedForCache_Invalidates(w, s, k, max_range) ==
  LET w0 == Invalidate(w, s, k, max_range)
      invalid == RemoveAll(GetInvalidatedRanges(w0, s, k, max_range), GetPassthroughs(s, k))
  IN  RequestEach(w0, s, k, max_range, invalid)

\* Faulty variant: the passthrough ranges are not removed.
RequestInvalidatedForCache_KeepPassthroughs(w, s, k, max_range) ==
  RequestEach(w, s, k, max_range, GetInvalidatedRanges(w, s, k, max_range))

RequestInvalidatedForCache(w, s, k, max_range) ==
  LET invalid == RemoveAll(GetInvalidatedRanges(w, s, k, max_range), GetPassthroughs(s, k))
  IN  RequestEach(w, s, k, max_range, invalid)

MaxRange(c) == InputTimeAdjustment(c, kBufferIn, TimeRange(R(0), length[c]))

\* Faulty variant: the frame and audio caches are requested whatever IsAutocaching() says.
RequestRangeFromConnected_AlwaysRequest(w, c, range, auto) ==
  IF track[c] \in {"video", "audio"} /\ connected[c] # NoNode
  THEN LET s == connected[c]
           max_range == MaxRange(c)
       IN  IF track[c] = "video"
           THEN RequestRangeForCache(
                  RequestRangeForCache(w, s, "thumbnail", max_range, range, TRUE, TRUE),
                  s, "video_frame", max_range, range, TRUE, TRUE)
           ELSE RequestRangeForCache(
                  RequestRangeForCache(w, s, "waveform", max_range, range, TRUE, TRUE),
                  s, "audio", max_range, range, TRUE, TRUE)
  ELSE w

\* auto is the value IsAutocaching() returns while the handler runs.
RequestRangeFromConnected(w, c, range, auto) ==
  IF track[c] \in {"video", "audio"} /\ connected[c] # NoNode
  THEN LET s == connected[c]
           max_range == MaxRange(c)
       IN  IF track[c] = "video"
           THEN RequestRangeForCache(
                  RequestRangeForCache(w, s, "thumbnail", max_range, range, TRUE, TRUE),
                  s, "video_frame", max_range, range, TRUE, auto)
           ELSE RequestRangeForCache(
                  RequestRangeForCache(w, s, "waveform", max_range, range, TRUE, TRUE),
                  s, "audio", max_range, range, TRUE, auto)
  ELSE w

\* Faulty variant: the second sweep goes to the first cache again.
RequestInvalidatedFromConnected_SameCacheTwice(w, c, auto) ==
  IF track[c] \in {"video", "audio"} /\ connected[c] # NoNode
  THEN LET s == connected[c]
           max_range == MaxRange(c)
           first == IF track[c] = "video" THEN "thumbnail" ELSE "waveform"
           w1 == RequestInvalidatedForCache(w, s, first, max_range)
       IN  IF auto THEN RequestInvalidatedForCache(w1, s, first, max_range) ELSE w1
  ELSE w

RequestInvalidatedFromConnected(w, c, auto) ==
  IF track[c] \in {"video", "audio"} /\ connected[c] # NoNode
  THEN LET s == connected[c]
           max_range == MaxRange(c)
           first == IF track[c] = "video" THEN "thumbnail" ELSE "waveform"
           second == IF track[c] = "video" THEN "video_frame" ELSE "audio"
           w1 == RequestInvalidatedForCache(w, s, first, max_range)
       IN  IF auto THEN RequestInvalidatedForCache(w1, s, second, max_range) ELSE w1
  ELSE w

(***************************************************************************)
(* ClipBlock::InvalidateCache.                                             *)
(***************************************************************************)
\* Faulty variant: the range is mapped with the forward mapping.
AdjustedRange_WrongDirection(c, range) ==
  IF qIsNull(speed[c])
  THEN TimeRange(RATIONAL_MIN, RATIONAL_MAX)
  ELSE TimeRange(SequenceToMediaTime(c, range.in, FALSE, FALSE),
                 SequenceToMediaTime(c, range.out, FALSE, FALSE))

\* Faulty variant: no special case for speed 0.
AdjustedRange_NoZeroCase(c, range) ==
  TimeRange(MediaToSequenceTime(c, range.in), MediaToSequenceTime(c, range.out))

\* The range handed downstream for an invalidation from the buffer input.
AdjustedRange(c, range) ==
  IF qIsNull(speed[c])
  THEN TimeRange(RATIONAL_MIN, RATIONAL_MAX)
  ELSE TimeRange(MediaToSequenceTime(c, range.in), MediaToSequenceTime(c, range.out))

\* QObject::disconnect removes every matching connection, connect adds one.
DisconnectMarkers(m, v) == [m EXCEPT ![v] = [sig \in MarkerSignals |-> 0]]
ConnectMarkers(m, v) == [m EXCEPT ![v] = [sig \in MarkerSignals |-> @[sig] + 1]]

\* Faulty variant: the old viewer's markers stay connected.
RebindMarkers_KeepsOld(c, new_connected_viewer) ==
  IF new_connected_viewer # connected_viewer_[c]
  THEN IF new_connected_viewer # NoNode
       THEN ConnectMarkers(marker_conns[c], new_connected_viewer)
       ELSE marker_conns[c]
  ELSE marker_conns[c]

RebindMarkers(c, new_connected_viewer) ==
  IF new_connected_viewer # connected_viewer_[c]
  THEN LET m1 == IF connected_viewer_[c] # NoNode
                 THEN DisconnectMarkers(marker_conns[c], connected_viewer_[c])
                 ELSE marker_conns[c]
       IN  IF new_connected_viewer # NoNode
           THEN ConnectMarkers(m1, new_connected_viewer) ELSE m1
  ELSE marker_conns[c]

Forwarded(c, range, from) == [clip |-> c, range |-> range, from |-> from]

InvalidateCache(c, range, from) ==
  /\ last' = [op |-> "InvalidateCache", clip |-> c, range |-> range, from |-> from]
  /\ IF from = kBufferIn
     THEN LET w == IF caches_enabled[c]
                   THEN RequestRangeFromConnected(World, c, range, autocache[c])
                   ELSE World
          IN  /\ invalidated' = w.inv
              /\ pending' = w.pend
              /\ calls' = w.calls
              /\ marker_conns' = [marker_conns EXCEPT ![c] = RebindMarkers(c, found_viewer[c])]
              /\ connected_viewer_' = [connected_viewer_ EXCEPT ![c] = found_viewer[c]]
              /\ downstream' = Forwarded(c, AdjustedRange(c, range), from)
     ELSE /\ calls' = <<>>
          /\ downstream' = Forwarded(c, range, from)
          /\ UNCHANGED <<invalidated, pending, marker_conns, connected_viewer_>>
  /\ UNCHANGED <<clipvars, graphvars, validated_conns, passthroughs, probe>>

(***************************************************************************)
(* ClipBlock::InputValueChangedEvent, run after an input's value was set.  *)
(***************************************************************************)
\* Faulty variant: switching autocache off cancels the thumbnails and waveforms too.
InputValueChangedEvent_CancelsPreviews(w, c, input, auto) ==
  IF input = kAutoCacheInput
  THEN IF auto
       THEN RequestInvalidatedFromConnected(w, c, auto)
       ELSE IF connected[c] # NoNode
            THEN IF track[c] = "video"
                 THEN CancelAll(CancelAll(w, connected[c], "thumbnail"),
                                connected[c], "video_frame")
                 ELSE IF track[c] = "audio"
                 THEN CancelAll(CancelAll(w, connected[c], "waveform"),
                                connected[c], "audio")
                 ELSE w
            ELSE w
  ELSE w

InputValueChangedEvent(w, c, input, auto) ==
  IF input = kAutoCacheInput
  THEN IF auto
       THEN RequestInvalidatedFromConnected(w, c, auto)
       ELSE IF connected[c] # NoNode
            THEN IF track[c] = "video" THEN CancelAll(w, connected[c], "video_frame")
                 ELSE IF track[c] = "audio" THEN CancelAll(w, connected[c], "audio")
                 ELSE w
            ELSE w
  ELSE w

\* ClipBlock::SetAutocache
SetAutocache(c, e) ==
  LET w == InputValueChangedEvent(World, c, kAutoCacheInput, e)
  IN  /\ autocache' = [autocache EXCEPT ![c] = e]
      /\ invalidated' = w.inv
      /\ pending' = w.pend
      /\ calls' = w.calls
      /\ last' = [op |-> "InputValueChangedEvent", clip |-> c, input |-> kAutoCacheInput, value |-> e]
      /\ UNCHANGED <<length, media_in, speed, reverse, track, caches_enabled,
                     graphvars, connvars, passthroughs, downstream, probe>>

\* Node::SetStandardValue on one of the clip's other inputs.
SetStandardValue(c, input, value) ==
  LET w == InputValueChangedEvent(World, c, input, autocache[c])
  IN  /\ speed' = IF input = kSpeedInput THEN [speed EXCEPT ![c] = value] ELSE speed
      /\ reverse' = IF input = kReverseInput THEN [reverse EXCEPT ![c] = value] ELSE reverse
      /\ invalidated' = w.inv
      /\ pending' = w.pend
      /\ calls' = w.calls
      /\ last' = [op |-> "InputValueChangedEvent", clip |-> c, input |-> input, value |-> value]
      /\ UNCHANGED <<length, media_in, autocache, track, caches_enabled,
                     graphvars, connvars, passthroughs, downstream, probe>>

\* ClipBlock::ConnectedToPreviewEvent
ConnectedToPreviewEvent(c) ==
  LET w == RequestInvalidatedFromConnected(World, c, autocache[c])
  IN  /\ invalidated' = w.inv
      /\ pending' = w.pend
      /\ calls' = w.calls
      /\ last' = [op |-> "ConnectedToPreviewEvent", clip |-> c]
      /\ UNCHANGED <<clipvars, graphvars, connvars, passthroughs, downstream, probe>>

(***************************************************************************)
(* Inputs.                                                                 *)
(***************************************************************************)
Lengths == {R(l) : l \in 1 .. MaxLen} \cup {R(10)}
MediaIns == {R(m) : m \in 0 .. MaxMediaIn}
Speeds == {R(0), Rat(1, 2), R(1), R(2)}
ReportedRanges ==
  {TimeRange(R(a), R(b)) : a \in 0 .. MaxT, b \in 1 .. MaxT} \cup
  {TimeRange(R(2), R(4)), TimeRange(RATIONAL_MIN, RATIONAL_MAX)}
OtherInputRanges == {TimeRange(R(0), R(1)), TimeRange(RATIONAL_MIN, RATIONAL_MAX)}

NoCells == [s \in Sources |-> [k \in Kinds |-> {}]]
NoPassthroughs == [s \in Sources |-> [k \in Kinds |-> <<>>]]
NoMarkerConns(C) == [c \in C |-> [v \in Viewers |-> [sig \in MarkerSignals |-> 0]]]
NoValidatedConns(C) == [c \in C |-> [s \in Sources |-> [k \in Kinds |-> 0]]]
NoLast == [op |-> "none"]
NoProbe == [op |-> "none"]
NoForward == [clip |-> NoNode]

(***************************************************************************)
(* SpecInvalidate: one clip, of any parameters, receives invalidations.    *)
(***************************************************************************)
InitInvalidate ==
  /\ length \in [{"A"} -> Lengths]
  /\ media_in \in [{"A"} -> MediaIns]
  /\ speed \in [{"A"} -> Speeds]
  /\ reverse \in [{"A"} -> BOOLEAN]
  /\ autocache \in [{"A"} -> BOOLEAN]
  /\ track \in [{"A"} -> TrackTypes]
  /\ caches_enabled \in [{"A"} -> BOOLEAN]
  /\ connected \in [{"A"} -> {NoNode, "S1"}]
  /\ found_viewer = [c \in {"A"} |-> NoNode]
  /\ connected_viewer_ = [c \in {"A"} |-> NoNode]
  /\ marker_conns = NoMarkerConns({"A"})
  /\ validated_conns = [c \in {"A"} |-> [s \in Sources |-> [k \in Kinds |->
                          IF connected[c] = s THEN 1 ELSE 0]]]
  /\ invalidated = NoCells
  /\ pending = NoCells
  /\ passthroughs = NoPassthroughs
  /\ calls = <<>>
  /\ downstream = NoForward
  /\ last = NoLast
  /\ probe = NoProbe

InvalidateFromBuffer ==
  \E c \in Clips, range \in ReportedRanges : InvalidateCache(c, range, kBufferIn)

InvalidateFromOther ==
  \E c \in Clips, range \in OtherInputRanges : InvalidateCache(c, range, kSpeedInput)

NextInvalidate == InvalidateFromBuffer \/ InvalidateFromOther

SpecInvalidate == InitInvalidate /\ [][NextInvalidate]_vars

(***************************************************************************)
(* Claims about invalidations arriving on the buffer input.                *)
(***************************************************************************)
FromBuffer == last.op = "InvalidateCache" /\ last.from = kBufferIn

\* r covers no time outside w.
Within(r, w) == IsEmptyRange(r) \/ (RLeq(w.in, r.in) /\ RLeq(r.out, w.out))

\* The visible media window: [0, length) mapped through SequenceToMediaTime.
VisibleMediaWindow(c) ==
  TimeRange(SequenceToMediaTime(c, R(0), FALSE, FALSE),
            SequenceToMediaTime(c, length[c], FALSE, FALSE))

CallsOn(k) == {i \in DOMAIN calls : calls[i].kind = k}
Has(op, k) == \E i \in DOMAIN calls : calls[i].op = op /\ calls[i].kind = k

\* C1: handling an invalidation from the buffer input never calls Invalidate
\* on a cache for a time outside the clip's visible media window.
C1_InvalidateWithinWindow ==
  FromBuffer =>
    \A i \in DOMAIN calls :
      calls[i].op = "Invalidate" => Within(calls[i].range, VisibleMediaWindow(last.clip))

\* C1 witness: a reversed, retimed clip was invalidated for a range that
\* reaches beyond its window, and the cache was invalidated for a proper part.
C1_Witness ==
  /\ FromBuffer
  /\ reverse[last.clip] /\ speed[last.clip] = R(2)
  /\ \E i \in DOMAIN calls :
       /\ calls[i].op = "Invalidate"
       /\ ~IsEmptyRange(calls[i].range)
       /\ calls[i].range # last.range

\* C2: when the reported range does not intersect the visible media window,
\* no Invalidate call and no Request emission is issued to any cache.
C2_NoCallsWhenDisjoint ==
  (FromBuffer /\ IsEmptyRange(Intersected(last.range, VisibleMediaWindow(last.clip))))
    => calls = <<>>

\* The downstream range the claim states for media range [a, b).
ImageRange(c, a, b) ==
  LET lo == RDiv(RSub(a, media_in[c]), speed[c])
      hi == RDiv(RSub(b, media_in[c]), speed[c])
  IN  IF reverse[c]
      THEN [in |-> RSub(length[c], hi), out |-> RSub(length[c], lo)]
      ELSE [in |-> lo, out |-> hi]

Scenario(len, spd, rev) ==
  /\ FromBuffer
  /\ length[last.clip] = R(len) /\ media_in[last.clip] = R(0)
  /\ speed[last.clip] = R(spd) /\ reverse[last.clip] = rev
  /\ last.range = TimeRange(R(2), R(4))

\* C4: with speed > 0 an invalidation of media range [a, b) from the buffer
\* input is passed downstream as the well-formed image of [a, b) under
\* MediaToSequenceTime; the three scenarios of length 10 give [2,4), [1,2), [6,8).
C4_DownstreamImage ==
  /\ (FromBuffer /\ ~qIsNull(speed[last.clip]) /\ IsFinite(last.range.in))
       => /\ downstream.clip = last.clip /\ downstream.from = kBufferIn
          /\ downstream.range = ImageRange(last.clip, last.range.in, last.range.out)
          /\ RLeq(downstream.range.in, downstream.range.out)
  /\ Scenario(10, 1, FALSE) => downstream.range = TimeRange(R(2), R(4))
  /\ Scenario(10, 2, FALSE) => downstream.range = TimeRange(R(1), R(2))
  /\ Scenario(10, 1, TRUE) => downstream.range = TimeRange(R(6), R(8))

\* C4 witness: the reversed scenario has been handled.
C4_Witness == Scenario(10, 1, TRUE) /\ downstream.range = TimeRange(R(6), R(8))

\* C5: with speed == 0 every invalidation from the buffer input is passed
\* downstream as (RATIONAL_MIN, RATIONAL_MAX); NaN is never an endpoint.
C5_ZeroSpeedWholeRange ==
  (FromBuffer /\ qIsNull(speed[last.clip]))
    => /\ downstream.clip = last.clip
       /\ downstream.range = [in |-> RATIONAL_MIN, out |-> RATIONAL_MAX]
       /\ ~IsNaN(downstream.range.in) /\ ~IsNaN(downstream.range.out)

\* C5 witness: a zero-speed reversed clip handled a bounded range.
C5_Witness ==
  /\ FromBuffer /\ qIsNull(speed[last.clip]) /\ reverse[last.clip]
  /\ IsFinite(last.range.in)
  /\ downstream.range = [in |-> RATIONAL_MIN, out |-> RATIONAL_MAX]

\* C10: with caches enabled and a source connected, the track type decides
\* the caches touched: video - thumbnail invalidated and requested, frame
\* cache requested iff autocaching, no call on waveform or audio; audio -
\* mirrored; any other track type - no call at all.
C10_KindsByTrack ==
  (FromBuffer /\ caches_enabled[last.clip] /\ connected[last.clip] # NoNode) =>
    LET c == last.clip IN
    /\ \A i \in DOMAIN calls : calls[i].src = connected[c]
    /\ track[c] = "video" =>
         /\ Has("Invalidate", "thumbnail") /\ Has("Request", "thumbnail")
         /\ Has("Request", "video_frame") <=> autocache[c]
         /\ CallsOn("waveform") = {} /\ CallsOn("audio") = {}
    /\ track[c] = "audio" =>
         /\ Has("Invalidate", "waveform") /\ Has("Request", "waveform")
         /\ Has("Request", "audio") <=> autocache[c]
         /\ CallsOn("thumbnail") = {} /\ CallsOn("video_frame") = {}
    /\ track[c] \notin {"video", "audio"} => calls = <<>>

\* C10 witness: a video clip that is not autocaching handled an invalidation.
C10_Witness ==
  /\ FromBuffer /\ caches_enabled[last.clip] /\ connected[last.clip] # NoNode
  /\ track[last.clip] = "video" /\ ~autocache[last.clip]
  /\ Has("Request", "thumbnail") /\ ~Has("Request", "video_frame")

(***************************************************************************)
(* SpecMap: the time-mapping functions called directly on one clip of any  *)
(* parameters.                                                             *)
(***************************************************************************)
ProbeTimes ==
  {Half(k) : k \in (0 - 2) .. (2 * MaxT)} \cup Lengths \cup {RATIONAL_MIN, RATIONAL_MAX}
ProbeRanges ==
  {TimeRange(RATIONAL_MIN, RATIONAL_MAX), TimeRange(R(0), RATIONAL_MAX),
   TimeRange(R(0), R(1)), TimeRange(R(1), R(MaxT))}

InitMap ==
  /\ length \in [{"A"} -> Lengths]
  /\ media_in \in [{"A"} -> MediaIns]
  /\ speed \in [{"A"} -> Speeds]
  /\ reverse \in [{"A"} -> BOOLEAN]
  /\ autocache = [c \in {"A"} |-> FALSE]
  /\ track = [c \in {"A"} |-> "none"]
  /\ caches_enabled = [c \in {"A"} |-> FALSE]
  /\ connected = [c \in {"A"} |-> NoNode]
  /\ found_viewer = [c \in {"A"} |-> NoNode]
  /\ connected_viewer_ = [c \in {"A"} |-> NoNode]
  /\ marker_conns = NoMarkerConns({"A"})
  /\ validated_conns = NoValidatedConns({"A"})
  /\ invalidated = NoCells
  /\ pending = NoCells
  /\ passthroughs = NoPassthroughs
  /\ calls = <<>>
  /\ downstream = NoForward
  /\ last = NoLast
  /\ probe = NoProbe

\* A call of SequenceToMediaTime.
CallSequenceToMediaTime(c, t, ignore_reverse, ignore_speed) ==
  /\ probe' = [op |-> "SequenceToMediaTime", clip |-> c, arg |-> t,
               ignore_reverse |-> ignore_reverse, ignore_speed |-> ignore_speed,
               result |-> SequenceToMediaTime(c, t, ignore_reverse, ignore_speed)]
  /\ UNCHANGED <<clipvars, graphvars, connvars, cachevars, calls, downstream, last>>

\* A call of MediaToSequenceTime on a media time.
CallMediaToSequenceTime(c, t) ==
  /\ probe' = [op |-> "MediaToSequenceTime", clip |-> c, arg |-> t, round_trip |-> FALSE,
               origin |-> t, result |-> MediaToSequenceTime(c, t)]
  /\ UNCHANGED <<clipvars, graphvars, connvars, cachevars, calls, downstream, last>>

\* A call of MediaToSequenceTime on what SequenceToMediaTime (default flags)
\* just returned.
CallRoundTrip ==
  /\ probe.op = "SequenceToMediaTime"
  /\ ~probe.ignore_reverse /\ ~probe.ignore_speed
  /\ probe' = [op |-> "MediaToSequenceTime", clip |-> probe.clip, arg |-> probe.result,
               round_trip |-> TRUE, origin |-> probe.arg,
               result |-> MediaToSequenceTime(probe.clip, probe.result)]
  /\ UNCHANGED <<clipvars, graphvars, connvars, cachevars, calls, downstream, last>>

\* A call of InputTimeAdjustment or of OutputTimeAdjustment.
CallInputTimeAdjustment(c, input, r) ==
  /\ probe' = [op |-> "InputTimeAdjustment", clip |-> c, input |-> input, arg |-> r,
               result |-> InputTimeAdjustment(c, input, r)]
  /\ UNCHANGED <<clipvars, graphvars, connvars, cachevars, calls, downstream, last>>

CallOutputTimeAdjustment(c, input, r) ==
  /\ probe' = [op |-> "OutputTimeAdjustment", clip |-> c, input |-> input, arg |-> r,
               result |-> OutputTimeAdjustment(c, input, r)]
  /\ UNCHANGED <<clipvars, graphvars, connvars, cachevars, calls, downstream, last>>

NextMap ==
  \/ \E c \in Clips, t \in ProbeTimes, ir \in BOOLEAN, is \in BOOLEAN :
       CallSequenceToMediaTime(c, t, ir, is)
  \/ \E c \in Clips, t \in ProbeTimes : CallMediaToSequenceTime(c, t)
  \/ CallRoundTrip
  \/ \E c \in Clips, input \in {kBufferIn, kSpeedInput}, r \in ProbeRanges :
       CallInputTimeAdjustment(c, input, r)
  \/ \E c \in Clips, input \in {kBufferIn, kSpeedInput}, r \in ProbeRanges :
       CallOutputTimeAdjustment(c, input, r)

SpecMap == InitMap /\ [][NextMap]_vars

RoundTripDone == probe.op = "MediaToSequenceTime" /\ probe.round_trip

\* C3: with speed > 0, for every reverse flag, media_in, length and
\* non-sentinel t, MediaToSequenceTime(SequenceToMediaTime(t)) == t.
C3_RoundTrip ==
  (RoundTripDone /\ ~qIsNull(speed[probe.clip]) /\ ~IsSentinel(probe.origin))
    => probe.result = probe.origin

\* C3 witness: a round trip through a reversed clip at half speed came back
\* to a time that the media time differs from.
C3_Witness ==
  /\ RoundTripDone /\ reverse[probe.clip] /\ speed[probe.clip] = Rat(1, 2)
  /\ ~IsSentinel(probe.origin)
  /\ probe.arg # probe.origin
  /\ probe.result = probe.origin

WholeRange == [in |-> RATIONAL_MIN, out |-> RATIONAL_MAX]

\* C11: RATIONAL_MIN and RATIONAL_MAX are fixed points of SequenceToMediaTime
\* (for both ignore flags) and of MediaToSequenceTime, for every reverse,
\* speed (0 included), media_in and length; so InputTimeAdjustment and
\* OutputTimeAdjustment on the buffer input map (MIN, MAX) to itself.
C11_SentinelsFixed ==
  /\ (probe.op \in {"SequenceToMediaTime", "MediaToSequenceTime"} /\ IsSentinel(probe.arg))
       => probe.result = probe.arg
  /\ (probe.op \in {"InputTimeAdjustment", "OutputTimeAdjustment"}
        /\ probe.input = kBufferIn /\ probe.arg = WholeRange)
       => probe.result = WholeRange

\* C11 witness: RATIONAL_MIN went unchanged through SequenceToMediaTime of a
\* reversed clip of speed 0 with both flags clear.
C11_Witness ==
  /\ probe.op = "SequenceToMediaTime" /\ probe.arg = RATIONAL_MIN
  /\ ~probe.ignore_reverse /\ ~probe.ignore_speed
  /\ reverse[probe.clip] /\ qIsNull(speed[probe.clip])
  /\ media_in[probe.clip] # R(0)
  /\ probe.result = RATIONAL_MIN

\* C12: with speed == 0, for every non-sentinel t and both values of reverse,
\* SequenceToMediaTime(t) with default flags is media_in, and
\* MediaToSequenceTime(t) is NaN.
C12_ZeroSpeed ==
  /\ (probe.op = "SequenceToMediaTime" /\ ~probe.ignore_reverse /\ ~probe.ignore_speed
        /\ qIsNull(speed[probe.clip]) /\ ~IsSentinel(probe.arg))
       => probe.result = media_in[probe.clip]
  /\ (probe.op = "MediaToSequenceTime"
        /\ qIsNull(speed[probe.clip]) /\ ~IsSentinel(probe.arg))
       => probe.result = NaN

\* C12 witness: MediaToSequenceTime of a reversed clip of speed 0 returned NaN
\* for an ordinary time.
C12_Witness ==
  /\ probe.op = "MediaToSequenceTime" /\ IsFinite(probe.arg)
  /\ qIsNull(speed[probe.clip]) /\ reverse[probe.clip]
  /\ probe.result = NaN

\* C13: with reverse == true and speed > 0, SequenceToMediaTime(0) is
\* media_in + length * speed and SequenceToMediaTime(length) is media_in.
C13_ReverseEndpoints ==
  (probe.op = "SequenceToMediaTime" /\ ~probe.ignore_reverse /\ ~probe.ignore_speed
     /\ reverse[probe.clip] /\ ~qIsNull(speed[probe.clip])) =>
    /\ probe.arg = R(0)
         => probe.result = RAdd(media_in[probe.clip],
                                RMul(length[probe.clip], speed[probe.clip]))
    /\ probe.arg = length[probe.clip] => probe.result = media_in[probe.clip]

\* C13 witness: the start of a reversed clip of length 10 at double speed
\* maps to media_in + 20.
C13_Witness ==
  /\ probe.op = "SequenceToMediaTime" /\ ~probe.ignore_reverse /\ ~probe.ignore_speed
  /\ reverse[probe.clip] /\ speed[probe.clip] = R(2) /\ length[probe.clip] = R(10)
  /\ probe.arg = R(0)
  /\ probe.result = RAdd(media_in[probe.clip], R(20))

(***************************************************************************)
(* SpecSweep: one clip of any parameters, connected to a node whose caches *)
(* hold invalidated ranges and passthroughs, has its autocache input and   *)
(* its other inputs set and is connected to the preview.                   *)
(***************************************************************************)
UnitCells(a) == CellsOf(TimeRange(R(a), R(a + 1)))
UnitSets ==
  {UNION {UnitCells(a) : a \in A} : A \in {{}, {0}, {0, 2}, {0, 1, 2}, {1, 2, 3}}}
Shifted(S) == {k + 2 : k \in S}
PassthroughLists ==
  {<<>>, <<TimeRange(R(1), R(2))>>, <<TimeRange(R(0), R(1)), TimeRange(R(2), R(3))>>}

InitSweep ==
  /\ length \in [{"A"} -> {R(l) : l \in 1 .. MaxLen}]
  /\ media_in \in [{"A"} -> MediaIns]
  /\ speed \in [{"A"} -> Speeds]
  /\ reverse \in [{"A"} -> BOOLEAN]
  /\ autocache = [c \in {"A"} |-> FALSE]
  /\ track \in [{"A"} -> TrackTypes]
  /\ caches_enabled = [c \in {"A"} |-> TRUE]
  /\ connected \in [{"A"} -> {NoNode, "S1"}]
  /\ found_viewer = [c \in {"A"} |-> NoNode]
  /\ connected_viewer_ = [c \in {"A"} |-> NoNode]
  /\ marker_conns = NoMarkerConns({"A"})
  /\ validated_conns = [c \in {"A"} |-> [s \in Sources |-> [k \in Kinds |->
                          IF connected[c] = s THEN 1 ELSE 0]]]
  /\ \E I \in UnitSets :
       invalidated = [s \in Sources |-> [k \in Kinds |->
                        IF s # "S1" THEN {}
                        ELSE IF k \in {"thumbnail", "waveform"} THEN I ELSE Shifted(I)]]
  /\ pending = NoCells
  /\ \E ps \in PassthroughLists :
       passthroughs = [s \in Sources |-> [k \in Kinds |-> IF s = "S1" THEN ps ELSE <<>>]]
  /\ calls = <<>>
  /\ downstream = NoForward
  /\ last = NoLast
  /\ probe = NoProbe

AutocacheSet == \E c \in Clips, e \in BOOLEAN : SetAutocache(c, e)

SpeedSet == \E c \in Clips, v \in Speeds : SetStandardValue(c, kSpeedInput, v)

ReverseSet == \E c \in Clips, v \in BOOLEAN : SetStandardValue(c, kReverseInput, v)

PitchSet == \E c \in Clips, v \in BOOLEAN : SetStandardValue(c, kMaintainAudioPitchInput, v)

OtherInputSet == SpeedSet \/ ReverseSet \/ PitchSet

PreviewConnected == \E c \in Clips : ConnectedToPreviewEvent(c)

NextSweep == AutocacheSet \/ OtherInputSet \/ PreviewConnected

SpecSweep == InitSweep /\ [][NextSweep]_vars

(***************************************************************************)
(* Claims about the recompute-only sweep and the autocache input.          *)
(***************************************************************************)
AutocacheChanged(e) ==
  last.op = "InputValueChangedEvent" /\ last.input = kAutoCacheInput /\ last.value = e

SweepDone == AutocacheChanged(TRUE) \/ last.op = "ConnectedToPreviewEvent"

RECURSIVE PassthroughCells(_)
PassthroughCells(ps) ==
  IF ps = <<>> THEN {} ELSE CellsOf(Head(ps)) \cup PassthroughCells(Tail(ps))

\* The cells of cache k that the sweep of clip c has to request.
Wanted(c, k) ==
  (invalidated[connected[c]][k] \cap CellsOf(VisibleMediaWindow(c)))
    \ PassthroughCells(passthroughs[connected[c]][k])

Requests(k) == {i \in DOMAIN calls : calls[i].op = "Request" /\ calls[i].kind = k}

\* One request per range of S: the requests cover S, each is a maximal run
\* of S, and no two are for the same range.
OnePerRange(k, S) ==
  /\ UNION {CellsOf(calls[i].range) : i \in Requests(k)} = S
  /\ \A i \in Requests(k) :
       /\ ~IsEmptyRange(calls[i].range)
       /\ CellsOf(calls[i].range) \subseteq S
       /\ (Ceil2(calls[i].range.in) - 1) \notin S
       /\ Floor2(calls[i].range.out) \notin S
       /\ calls[i].range = TimeRange(Half(Ceil2(calls[i].range.in)),
                                     Half(Floor2(calls[i].range.out)))
  /\ \A i, j \in Requests(k) : calls[i].range = calls[j].range => i = j

AppliesTo(c) ==
  IF track[c] = "video" THEN {"thumbnail", "video_frame"}
  ELSE IF track[c] = "audio" THEN {"waveform", "audio"}
  ELSE {}

\* C6: switching autocache on for a clip with a connected source emits, for
\* each cache kind of the clip's track, exactly one Request per range of the
\* cache's invalidated ranges within the visible media window minus its
\* passthroughs, carrying that range, and no range twice.
C6_OneRequestPerRange ==
  (AutocacheChanged(TRUE) /\ connected[last.clip] # NoNode) =>
    /\ \A k \in AppliesTo(last.clip) : OnePerRange(k, Wanted(last.clip, k))
    /\ \A i \in DOMAIN calls :
         /\ calls[i].op = "Request"
         /\ calls[i].src = connected[last.clip]
         /\ calls[i].kind \in AppliesTo(last.clip)

\* C6 witness: the sweep of a video clip requested two separate ranges of
\* the thumbnail cache and a range of the frame cache.
C6_Witness ==
  /\ AutocacheChanged(TRUE) /\ connected[last.clip] # NoNode
  /\ track[last.clip] = "video"
  /\ Cardinality(Requests("thumbnail")) = 2
  /\ Cardinality(Requests("video_frame")) >= 1
  /\ passthroughs[connected[last.clip]]["thumbnail"] # <<>>

Overlaps(r, p) == RLess(qMax(r.in, p.in), qMin(r.out, p.out))

\* C9: the recompute-only sweep never emits a Request for a time inside a
\* passthrough range of the cache being swept.
C9_NoRequestInPassthrough ==
  SweepDone =>
    \A i \in DOMAIN calls :
      calls[i].op = "Request" =>
        \A j \in DOMAIN passthroughs[calls[i].src][calls[i].kind] :
          ~Overlaps(calls[i].range, passthroughs[calls[i].src][calls[i].kind][j])

\* C9 witness: a sweep on connecting to the preview requested around a
\* passthrough range that lies inside an invalidated range of the window.
C9_Witness ==
  /\ last.op = "ConnectedToPreviewEvent" /\ connected[last.clip] # NoNode
  /\ \E k \in Kinds :
       /\ Cardinality(Requests(k)) = 2
       /\ \E j \in DOMAIN passthroughs[connected[last.clip]][k] :
            LET p == passthroughs[connected[last.clip]][k][j]
            IN  /\ CellsOf(p) # {}
                /\ CellsOf(p) \subseteq
                     (invalidated[connected[last.clip]][k]
                        \cap CellsOf(VisibleMediaWindow(last.clip)))

\* C18: the recompute-only sweep never calls Invalidate: the invalidated
\* ranges of every cache are the same after the sweep as before it, and every
\* Request it emits is for a range the cache already reported as invalidated
\* inside the clip's visible media window.
C18_SweepOnlyRequests ==
  [][SweepDone' =>
       /\ invalidated' = invalidated
       /\ \A i \in DOMAIN calls' :
            /\ calls'[i].op # "Invalidate"
            /\ calls'[i].op = "Request" =>
                 /\ CellsOf(calls'[i].range) # {}
                 /\ CellsOf(calls'[i].range) \subseteq
                      (invalidated[calls'[i].src][calls'[i].kind]
                         \cap CellsOf(VisibleMediaWindow(last'.clip)))]_vars

\* C18 witness: a sweep requested part of a cache whose invalidated ranges
\* reach outside the clip's visible media window.
C18_Witness ==
  /\ SweepDone /\ connected[last.clip] # NoNode
  /\ \E i \in DOMAIN calls :
       /\ calls[i].op = "Request"
       /\ invalidated[calls[i].src][calls[i].kind]
            \ CellsOf(VisibleMediaWindow(last.clip)) # {}
       /\ CellsOf(calls[i].range) # invalidated[calls[i].src][calls[i].kind]

(***************************************************************************)
(* Spec: two clips on one track, A showing [0, 2) and B showing [2, 3)     *)
(* of the same connected node, whose caches they share.                    *)
(***************************************************************************)
Init ==
  /\ length = [c \in {"A", "B"} |-> IF c = "A" THEN R(2) ELSE R(1)]
  /\ media_in = [c \in {"A", "B"} |-> IF c = "A" THEN R(0) ELSE R(2)]
  /\ speed = [c \in {"A", "B"} |-> R(1)]
  /\ reverse = [c \in {"A", "B"} |-> FALSE]
  /\ autocache = [c \in {"A", "B"} |-> FALSE]
  /\ \E t \in TrackTypes : track = [c \in {"A", "B"} |-> t]
  /\ caches_enabled = [c \in {"A", "B"} |-> TRUE]
  /\ connected = [c \in {"A", "B"} |-> "S1"]
  /\ found_viewer = [c \in {"A", "B"} |-> NoNode]
  /\ connected_viewer_ = [c \in {"A", "B"} |-> NoNode]
  /\ marker_conns = NoMarkerConns({"A", "B"})
  /\ validated_conns = [c \in {"A", "B"} |-> [s \in Sources |-> [k \in Kinds |->
                          IF s = "S1" THEN 1 ELSE 0]]]
  /\ invalidated = NoCells
  /\ pending = NoCells
  /\ passthroughs = NoPassthroughs
  /\ calls = <<>>
  /\ downstream = NoForward
  /\ last = NoLast
  /\ probe = NoProbe

SharedRanges ==
  {TimeRange(R(0), R(1)), TimeRange(R(1), R(3)), TimeRange(RATIONAL_MIN, RATIONAL_MAX)}

InvalidateShared ==
  \E c \in Clips, range \in SharedRanges : InvalidateCache(c, range, kBufferIn)

Next ==
  \/ InvalidateShared
  \/ InvalidateFromOther
  \/ AutocacheSet
  \/ PitchSet
  \/ PreviewConnected

Spec == Init /\ [][Next]_vars

(***************************************************************************)
(* Claims about cancelling and about clips sharing caches.                 *)
(***************************************************************************)
CancelKind(c) == IF track[c] = "video" THEN "video_frame" ELSE "audio"

\* C7: CancelAll is emitted only when autocache is switched off, and only to
\* the frame cache (video track) or the audio cache (audio track) of the
\* connected node; the thumbnail and waveform caches never receive it, and a
\* value change of another input emits none.
C7_CancelOnlyFrameOrAudio ==
  /\ \A i \in DOMAIN calls :
       calls[i].op = "CancelAll" =>
         /\ AutocacheChanged(FALSE)
         /\ track[last.clip] \in {"video", "audio"}
         /\ calls[i].src = connected[last.clip]
         /\ calls[i].kind = CancelKind(last.clip)
  /\ (AutocacheChanged(FALSE) /\ connected[last.clip] # NoNode
        /\ track[last.clip] \in {"video", "audio"})
       => calls = <<Call("CancelAll", connected[last.clip], CancelKind(last.clip),
                         TimeRange(RATIONAL_MIN, RATIONAL_MAX))>>

\* C7 witness: autocache was switched off on a video clip while thumbnail
\* requests were queued; only the frame cache was cancelled.
C7_Witness ==
  /\ AutocacheChanged(FALSE) /\ track[last.clip] = "video"
  /\ Has("CancelAll", "video_frame")
  /\ pending[connected[last.clip]]["thumbnail"] # {}
  /\ pending[connected[last.clip]]["video_frame"] = {}

\* C8: no operation of a clip invalidates, or cancels queued work for, a time
\* outside that clip's visible media window: what another clip sharing the
\* caches has queued for its own region stays queued.
C8_MutationsScopedToWindow ==
  [][\A c \in Clips :
       last'.clip = c =>
         \A s \in Sources, k \in Kinds :
           \A cell \in Cells \ CellsOf(VisibleMediaWindow(c)) :
             /\ cell \in pending[s][k] => cell \in pending'[s][k]
             /\ cell \in invalidated'[s][k] => cell \in invalidated[s][k]]_vars

(***************************************************************************)
(* SpecTrim: one clip whose in point and out point are trimmed.            *)
(***************************************************************************)
TrimLengths == {R(l) : l \in 1 .. (MaxLen + 1)}
TrimTimes == {Half(k) : k \in 0 .. (2 * (MaxLen + 1))}
TrimMediaInLow == R(0 - (MaxLen + 1))
TrimMediaInHigh == R(MaxMediaIn + 2 * (MaxLen + 1))

\* The sequence-to-media mapping of clip c at every time of the trim grid.
Mapping(c) == [t \in TrimTimes |-> SequenceToMediaTime(c, t, FALSE, FALSE)]

\* Block::set_length_and_media_out and Block::set_length_and_media_in store
\* the new length.
Block_set_length(c, new_length) == [length EXCEPT ![c] = new_length]

\* ClipBlock::set_media_in: a standard value change of the media-in input.
set_media_in(w, c) == InputValueChangedEvent(w, c, kMediaInInput, autocache[c])

TrimRecord(op, c, new_length) ==
  [op |-> op, clip |-> c, length |-> new_length, old_length |-> length[c],
   old_media_in |-> media_in[c], before |-> Mapping(c)]

\* Faulty variant: the length is stored before media_in is computed.
set_length_and_media_out_LengthFirst(c, new_length) ==
  LET proposed_media_in == SequenceToMediaTime(c, RSub(new_length, new_length), TRUE, FALSE)
      adjust == new_length # length[c] /\ reverse[c]
      w == IF adjust THEN set_media_in(World, c) ELSE World
  IN  /\ adjust => (RLeq(TrimMediaInLow, proposed_media_in)
                      /\ RLeq(proposed_media_in, TrimMediaInHigh))
      /\ media_in' = IF adjust THEN [media_in EXCEPT ![c] = proposed_media_in] ELSE media_in
      /\ length' = IF new_length = length[c] THEN length ELSE Block_set_length(c, new_length)
      /\ invalidated' = w.inv
      /\ pending' = w.pend
      /\ calls' = w.calls
      /\ last' = TrimRecord("set_length_and_media_out", c, new_length)
      /\ UNCHANGED <<speed, reverse, autocache, track, caches_enabled,
                     graphvars, connvars, passthroughs, downstream, probe>>

\* ClipBlock::set_length_and_media_out
set_length_and_media_out(c, new_length) ==
  LET proposed_media_in ==
        SequenceToMediaTime(c, RSub(length[c], new_length), TRUE, FALSE)
      adjust == new_length # length[c] /\ reverse[c]
      w == IF adjust THEN set_media_in(World, c) ELSE World
  IN  /\ adjust => (RLeq(TrimMediaInLow, proposed_media_in)
                      /\ RLeq(proposed_media_in, TrimMediaInHigh))
      /\ media_in' = IF adjust THEN [media_in EXCEPT ![c] = proposed_media_in] ELSE media_in
      /\ length' = IF new_length = length[c] THEN length ELSE Block_set_length(c, new_length)
      /\ invalidated' = w.inv
      /\ pending' = w.pend
      /\ calls' = w.calls
      /\ last' = TrimRecord("set_length_and_media_out", c, new_length)
      /\ UNCHANGED <<speed, reverse, autocache, track, caches_enabled,
                     graphvars, connvars, passthroughs, downstream, probe>>

\* Faulty variant: media_in is adjusted whatever the reverse flag is.
set_length_and_media_in_IgnoresReverse(c, new_length) ==
  LET proposed_media_in ==
        SequenceToMediaTime(c, RSub(length[c], new_length), TRUE, TRUE)
      adjust == new_length # length[c]
      w == IF adjust THEN set_media_in(World, c) ELSE World
  IN  /\ adjust => (RLeq(TrimMediaInLow, proposed_media_in)
                      /\ RLeq(proposed_media_in, TrimMediaInHigh))
      /\ media_in' = IF adjust THEN [media_in EXCEPT ![c] = proposed_media_in] ELSE media_in
      /\ length' = IF new_length = length[c] THEN length ELSE Block_set_length(c, new_length)
      /\ invalidated' = w.inv
      /\ pending' = w.pend
      /\ calls' = w.calls
      /\ last' = TrimRecord("set_length_and_media_in", c, new_length)
      /\ UNCHANGED <<speed, reverse, autocache, track, caches_enabled,
                     graphvars, connvars, passthroughs, downstream, probe>>

\* ClipBlock::set_length_and_media_in
set_length_and_media_in(c, new_length) ==
  LET proposed_media_in ==
        SequenceToMediaTime(c, RSub(length[c], new_length), FALSE, TRUE)
      adjust == new_length # length[c] /\ ~reverse[c]
      w == IF adjust THEN set_media_in(World, c) ELSE World
  IN  /\ adjust => (RLeq(TrimMediaInLow, proposed_media_in)
                      /\ RLeq(proposed_media_in, TrimMediaInHigh))
      /\ media_in' = IF adjust THEN [media_in EXCEPT ![c] = proposed_media_in] ELSE media_in
      /\ length' = IF new_length = length[c] THEN length ELSE Block_set_length(c, new_length)
      /\ invalidated' = w.inv
      /\ pending' = w.pend
      /\ calls' = w.calls
      /\ last' = TrimRecord("set_length_and_media_in", c, new_length)
      /\ UNCHANGED <<speed, reverse, autocache, track, caches_enabled,
                     graphvars, connvars, passthroughs, downstream, probe>>

InitTrim ==
  /\ length \in [{"A"} -> TrimLengths]
  /\ media_in \in [{"A"} -> MediaIns]
  /\ speed \in [{"A"} -> Speeds]
  /\ reverse \in [{"A"} -> BOOLEAN]
  /\ autocache = [c \in {"A"} |-> FALSE]
  /\ track = [c \in {"A"} |-> "video"]
  /\ caches_enabled = [c \in {"A"} |-> TRUE]
  /\ connected = [c \in {"A"} |-> NoNode]
  /\ found_viewer = [c \in {"A"} |-> NoNode]
  /\ connected_viewer_ = [c \in {"A"} |-> NoNode]
  /\ marker_conns = NoMarkerConns({"A"})
  /\ validated_conns = NoValidatedConns({"A"})
  /\ invalidated = NoCells
  /\ pending = NoCells
  /\ passthroughs = NoPassthroughs
  /\ calls = <<>>
  /\ downstream = NoForward
  /\ last = NoLast
  /\ probe = NoProbe

TrimOut == \E c \in Clips, l \in TrimLengths : set_length_and_media_out(c, l)
TrimIn == \E c \in Clips, l \in TrimLengths : set_length_and_media_in(c, l)

NextTrim == TrimOut \/ TrimIn

SpecTrim == InitTrim /\ [][NextTrim]_vars

TrimmedOut == last.op = "set_length_and_media_out"
TrimmedIn == last.op = "set_length_and_media_in"

\* C14: set_length_and_media_out changes media_in only when reverse is true
\* and set_length_and_media_in only when reverse is false; in the other two
\* combinations media_in is unchanged; an adjusted media_in is computed from
\* the old length, and then the new length is stored; a call with the
\* current length changes neither media_in nor length.
C14_OneTrimAdjustment ==
  (TrimmedOut \/ TrimmedIn) =>
    LET c == last.clip
        delta == RSub(last.old_length, last.length)
    IN  /\ (TrimmedOut /\ ~reverse[c]) => media_in[c] = last.old_media_in
        /\ (TrimmedIn /\ reverse[c]) => media_in[c] = last.old_media_in
        /\ last.length = last.old_length =>
             (media_in[c] = last.old_media_in /\ length[c] = last.old_length)
        /\ length[c] = last.length
        /\ (TrimmedOut /\ reverse[c]) =>
             media_in[c] = RAdd(IF qIsNull(speed[c]) THEN R(0) ELSE RMul(delta, speed[c]),
                                last.old_media_in)
        /\ (TrimmedIn /\ ~reverse[c]) => media_in[c] = RAdd(delta, last.old_media_in)

\* C14 witness: an in-point trim of a reversed clip changed the length and
\* left media_in alone.
C14_Witness ==
  /\ TrimmedIn /\ reverse[last.clip]
  /\ length[last.clip] # last.old_length
  /\ media_in[last.clip] = last.old_media_in
  /\ media_in[last.clip] # R(0)

\* C19: trimming the out point of a reversed clip with speed > 0 keeps the
\* media anchored at the clip's start: for every sequence time t in
\* [0, min(old_length, new_length)], SequenceToMediaTime(t) is the same after
\* the trim as before it.
C19_OutTrimKeepsStart ==
  (TrimmedOut /\ reverse[last.clip] /\ ~qIsNull(speed[last.clip])) =>
    \A t \in TrimTimes :
      (RLeq(t, last.old_length) /\ RLeq(t, last.length)) =>
        SequenceToMediaTime(last.clip, t, FALSE, FALSE) = last.before[t]

\* C19 witness: a reversed clip at double speed was shortened at its out
\* point; media_in moved and the media time at the clip's start stayed.
C19_Witness ==
  /\ TrimmedOut /\ reverse[last.clip] /\ speed[last.clip] = R(2)
  /\ RLess(last.length, last.old_length)
  /\ media_in[last.clip] # last.old_media_in
  /\ SequenceToMediaTime(last.clip, R(0), FALSE, FALSE) = last.before[R(0)]

\* C20: trimming the in point of a forward clip keeps the media anchored at
\* the clip's end for every speed > 0: SequenceToMediaTime(new_length) after
\* the trim equals SequenceToMediaTime(old_length) before it.
C20_InTrimKeepsEnd ==
  (TrimmedIn /\ ~reverse[last.clip] /\ ~qIsNull(speed[last.clip])) =>
    SequenceToMediaTime(last.clip, last.length, FALSE, FALSE) = last.before[last.old_length]

(***************************************************************************)
(* SpecBind: one clip whose buffer input is connected and disconnected     *)
(* while the viewer found upstream changes and invalidations arrive.       *)
(***************************************************************************)
\* QObject::connect and QObject::disconnect on the Validated signal of the
\* four caches of a node.
ConnectValidated(v, output) == [v EXCEPT ![output] = [k \in Kinds |-> @[k] + 1]]
DisconnectValidated(v, output) == [v EXCEPT ![output] = [k \in Kinds |-> 0]]

\* ClipBlock::InputConnectedEvent
InputConnectedEvent(c, input, output) ==
  /\ validated_conns' =
       IF input = kBufferIn
       THEN [validated_conns EXCEPT ![c] = ConnectValidated(validated_conns[c], output)]
       ELSE validated_conns
  /\ calls' = <<>>
  /\ last' = [op |-> "InputConnectedEvent", clip |-> c, input |-> input, output |-> output]
  /\ UNCHANGED <<clipvars, connected_viewer_, marker_conns, cachevars, downstream, probe>>

\* Faulty variant: the audio cache's Validated signal stays connected.
InputDisconnectedEvent_LeavesAudio(c, input, output) ==
  /\ validated_conns' =
       IF input = kBufferIn
       THEN [validated_conns EXCEPT ![c][output] =
               [k \in Kinds |-> IF k = "audio" THEN @[k] ELSE 0]]
       ELSE validated_conns
  /\ calls' = <<>>
  /\ last' = [op |-> "InputDisconnectedEvent", clip |-> c, input |-> input, output |-> output]
  /\ UNCHANGED <<clipvars, connected_viewer_, marker_conns, cachevars, downstream, probe>>

\* ClipBlock::InputDisconnectedEvent
InputDisconnectedEvent(c, input, output) ==
  /\ validated_conns' =
       IF input = kBufferIn
       THEN [validated_conns EXCEPT ![c] = DisconnectValidated(validated_conns[c], output)]
       ELSE validated_conns
  /\ calls' = <<>>
  /\ last' = [op |-> "InputDisconnectedEvent", clip |-> c, input |-> input, output |-> output]
  /\ UNCHANGED <<clipvars, connected_viewer_, marker_conns, cachevars, downstream, probe>>

\* Node::ConnectEdge: an edge from output to an input of clip c appears and
\* the clip's handler runs; viewer is the viewer then found upstream of the
\* buffer input.
ConnectEdge(c, input, output, viewer) ==
  /\ IF input = kBufferIn
     THEN /\ connected[c] = NoNode
          /\ connected' = [connected EXCEPT ![c] = output]
          /\ found_viewer' = [found_viewer EXCEPT ![c] = viewer]
     ELSE UNCHANGED graphvars
  /\ InputConnectedEvent(c, input, output)

\* Node::DisconnectEdge: the edge goes and the clip's handler runs; nothing
\* is upstream of a disconnected buffer input.
DisconnectEdge(c, input, output) ==
  /\ IF input = kBufferIn
     THEN /\ connected[c] = output
          /\ connected' = [connected EXCEPT ![c] = NoNode]
          /\ found_viewer' = [found_viewer EXCEPT ![c] = NoNode]
     ELSE UNCHANGED graphvars
  /\ InputDisconnectedEvent(c, input, output)

\* The graph upstream of the connected node changes: another viewer, or
\* none, is now found from the buffer input.
UpstreamChanged(c, viewer) ==
  /\ connected[c] # NoNode
  /\ viewer # found_viewer[c]
  /\ found_viewer' = [found_viewer EXCEPT ![c] = viewer]
  /\ calls' = <<>>
  /\ last' = [op |-> "UpstreamChanged", clip |-> c]
  /\ UNCHANGED <<clipvars, connected, connvars, cachevars, downstream, probe>>

BindViewers == Viewers \cup {NoNode}
BindRanges == {TimeRange(R(0), R(1)), TimeRange(RATIONAL_MIN, RATIONAL_MAX)}

InitBind ==
  /\ length = [c \in {"A"} |-> R(1)]
  /\ media_in = [c \in {"A"} |-> R(0)]
  /\ speed = [c \in {"A"} |-> R(1)]
  /\ reverse = [c \in {"A"} |-> FALSE]
  /\ autocache = [c \in {"A"} |-> FALSE]
  /\ track = [c \in {"A"} |-> "video"]
  /\ caches_enabled = [c \in {"A"} |-> TRUE]
  /\ connected = [c \in {"A"} |-> NoNode]
  /\ found_viewer = [c \in {"A"} |-> NoNode]
  /\ connected_viewer_ = [c \in {"A"} |-> NoNode]
  /\ marker_conns = NoMarkerConns({"A"})
  /\ validated_conns = NoValidatedConns({"A"})
  /\ invalidated = NoCells
  /\ pending = NoCells
  /\ passthroughs = NoPassthroughs
  /\ calls = <<>>
  /\ downstream = NoForward
  /\ last = NoLast
  /\ probe = NoProbe

BufferConnected ==
  \E c \in Clips, output \in Sources, viewer \in BindViewers :
    ConnectEdge(c, kBufferIn, output, viewer)
BufferDisconnected ==
  \E c \in Clips, output \in Sources : DisconnectEdge(c, kBufferIn, output)
OtherConnected ==
  \E c \in Clips, output \in Sources : ConnectEdge(c, kSpeedInput, output, NoNode)
OtherDisconnected ==
  \E c \in Clips, output \in Sources : DisconnectEdge(c, kSpeedInput, output)
ViewerChanged == \E c \in Clips, viewer \in BindViewers : UpstreamChanged(c, viewer)
InvalidateBound ==
  \E c \in Clips, range \in BindRanges, from \in {kBufferIn, kSpeedInput} :
    InvalidateCache(c, range, from)

NextBind ==
  \/ BufferConnected
  \/ BufferDisconnected
  \/ OtherConnected
  \/ OtherDisconnected
  \/ ViewerChanged
  \/ InvalidateBound

SpecBind == InitBind /\ [][NextBind]_vars

\* The marker subscriptions of clip c are exactly one per signal to viewer v
\* (to nobody when v is NoNode).
BoundTo(m, v) ==
  \A u \in Viewers, sig \in MarkerSignals : m[u][sig] = IF u = v THEN 1 ELSE 0

\* C15: after any sequence of rebinds by buffer-input invalidations, with the
\* viewer found upstream changing arbitrarily in between, the clip holds
\* marker subscriptions to at most one provider, that provider is
\* connected_viewer_, with exactly one subscription per marker signal; and an
\* invalidation that finds the provider already bound changes no subscription.
C15_OneMarkerBinding ==
  [][/\ \A c \in Clips : BoundTo(marker_conns'[c], connected_viewer_'[c])
     /\ \A c \in Clips :
          (last'.op = "InvalidateCache" /\ last'.clip = c /\ last'.from = kBufferIn
             /\ found_viewer[c] = connected_viewer_[c])
            => (marker_conns'[c] = marker_conns[c]
                  /\ connected_viewer_'[c] = connected_viewer_[c])]_vars

\* C15 witness: a buffer-input invalidation found viewer V2 while the clip
\* had been bound; the clip is now subscribed once per signal to V2 only.
C15_Witness ==
  /\ last.op = "InvalidateCache" /\ last.from = kBufferIn
  /\ connected_viewer_[last.clip] = "V2"
  /\ found_viewer[last.clip] = "V2"
  /\ BoundTo(marker_conns[last.clip], "V2")

\* C16: after every connect, disconnect and invalidation event, the clip
\* holds no marker subscription to a provider other than the one currently
\* reachable through the buffer input (none at all when there is none).
C16_NoStaleMarkerBinding ==
  last.op \in {"InputConnectedEvent", "InputDisconnectedEvent", "InvalidateCache"} =>
    \A v \in Viewers, sig \in MarkerSignals :
      marker_conns[last.clip][v][sig] > 0 => v = found_viewer[last.clip]

\* C17: after any alternation of InputConnectedEvent and
\* InputDisconnectedEvent on the buffer input, the clip is subscribed once to
\* the Validated signal of each of the four caches of the connected producer
\* and to no cache of any other producer; events on other inputs change none.
C17_ValidatedFollowsProducer ==
  \A c \in Clips, s \in Sources, k \in Kinds :
    validated_conns[c][s][k] = IF connected[c] = s THEN 1 ELSE 0

\* C17 witness: a connect event on another input arrived while the clip was
\* connected to S2; the four caches of S2 are subscribed and none of S1.
C17_Witness ==
  /\ last.op = "InputConnectedEvent" /\ last.input # kBufferIn
  /\ connected[last.clip] = "S2"
  /\ \A k \in Kinds : validated_conns[last.clip]["S2"][k] = 1
  /\ \A k \in Kinds : validated_conns[last.clip]["S1"][k] = 0

====
